---- MODULE Spec2Model ----
(***************************************************************************)
(* Model of cubesql's StatementBinder (sql/postgres/portal.rs): a Visitor  *)
(* walks a sqlparser statement tree and the binder's visit_value replaces  *)
(* every placeholder it reaches by the literal form of the next value.     *)
(*                                                                         *)
(* A tree node is a record [kind, kids, data]: kind names the ast type or  *)
(* enum variant, kids is the ordered list of owned children and data holds *)
(* the node's own content.  A node is addressed by its path, the sequence  *)
(* of child indices leading to it from the statement.  The recursion of    *)
(* the visitor is kept as a stack of pending calls.                        *)
(***************************************************************************)
EXTENDS Integers, Sequences, FiniteSets

\* ------------------------------------------------------------------ bounds
MaxNodes == 3
MaxValues == 1
MaxInt == 1

\* ------------------------------------------------------- ast constructors
Node(kind, kids, data) == [kind |-> kind, kids |-> kids, data |-> data]

Placeholder(s) == <<"Placeholder", s>>
Number(s, b) == <<"Number", s, b>>
SingleQuotedString(s) == <<"SingleQuotedString", s>>
Boolean(b) == <<"Boolean", b>>

ExprValue(v) == Node("Expr::Value", <<>>, v)
ExprIdentifier(name) == Node("Expr::Identifier", <<>>, <<name>>)
ExprNested(e) == Node("Expr::Nested", <<e>>, <<>>)
ExprBetween(e, negated, low, high) == Node("Expr::Between", <<e, low, high>>, <<negated>>)
ExprBinaryOp(left, op, right) == Node("Expr::BinaryOp", <<left, right>>, <<op>>)
ExprUnaryOp(op, e) == Node("Expr::UnaryOp", <<e>>, <<op>>)

TableFactorTable(name) == Node("TableFactor::Table", <<>>, <<name>>)
TableFactorDerived(subquery) == Node("TableFactor::Derived", <<subquery>>, <<>>)
TableFactorNestedJoin(twj) == Node("TableFactor::NestedJoin", <<twj>>, <<>>)
Join(relation) == Node("Join", <<relation>>, <<>>)
TableWithJoins(relation, joins) == Node("TableWithJoins", <<relation>> \o joins, <<>>)

\* An absent Option is the empty sequence, Some(e) is <<e>>.
Select(having, selection, from) ==
    Node("Select", having \o selection \o from, <<Len(having) = 1, Len(selection) = 1>>)
SetExprSelect(select) == Node("SetExpr::Select", <<select>>, <<>>)
SetExprQuery(query) == Node("SetExpr::Query", <<query>>, <<>>)
SetExprSetOperation(left, op, right) == Node("SetExpr::SetOperation", <<left, right>>, <<op>>)
SetExprValues(rows) == Node("SetExpr::Values", rows, <<>>)
Query(body) == Node("Query", <<body>>, <<>>)
StatementQuery(query) == Node("Statement::Query", <<query>>, <<>>)
StatementInsert(source) == Node("Statement::Insert", <<source>>, <<>>)

\* ------------------------------------------------------------ value model
String(s) == <<"String", s>>
Int64(v) == <<"Int64", v>>
UInt64(v) == <<"UInt64", v>>
Bool(b) == <<"Bool", b>>

PlaceholderValue == {String("test"), Int64(-MaxInt), Int64(0), UInt64(MaxInt), Bool(TRUE)}

RECURSIVE SeqsUpTo(_, _)
SeqsUpTo(S, n) ==
    IF n = 0 THEN {<<>>}
    ELSE LET shorter == SeqsUpTo(S, n - 1)
         IN shorter \cup {Append(s, x) : s \in {t \in shorter : Len(t) = n - 1}, x \in S}

ValueLists == SeqsUpTo(PlaceholderValue, MaxValues)

\* ----------------------------------------------- statement trees by size
\* The size of a tree counts its Expr, SetExpr and TableFactor nodes.
Markers == {"$1", "$2"}
ExprLeaves ==
    {ExprValue(Placeholder(m)) : m \in Markers}
        \cup {ExprValue(Number("1", FALSE)), ExprIdentifier("fieldA")}
BinaryOperators == {"=", "AND"}

RECURSIVE Exprs(_)
Exprs(n) ==
    IF n < 1 THEN {}
    ELSE IF n = 1 THEN ExprLeaves
    ELSE {ExprNested(e) : e \in Exprs(n - 1)}
        \cup {ExprUnaryOp("NOT", e) : e \in Exprs(n - 1)}
        \cup UNION {{ExprBinaryOp(l, op, r) : l \in Exprs(a), op \in BinaryOperators,
                                              r \in Exprs(n - 1 - a)} : a \in 1 .. n - 2}
        \cup UNION {{ExprBetween(e, FALSE, lo, hi) : e \in Exprs(a[1]), lo \in Exprs(a[2]),
                                                     hi \in Exprs(n - 1 - a[1] - a[2])} :
                     a \in {b \in (1 .. n - 3) \X (1 .. n - 3) : b[1] + b[2] <= n - 2}}

OptExprs(n) == IF n = 0 THEN {<<>>} ELSE {<<e>> : e \in Exprs(n)}

RECURSIVE SetExprs(_), TableFactors(_), TableWithJoinsOf(_), JoinLists(_), FromLists(_)
TableFactors(n) ==
    IF n < 1 THEN {}
    ELSE (IF n = 1 THEN {TableFactorTable("testdata")} ELSE {})
        \cup {TableFactorDerived(Query(b)) : b \in SetExprs(n - 1)}
        \cup {TableFactorNestedJoin(t) : t \in TableWithJoinsOf(n - 1)}

JoinLists(n) ==
    IF n = 0 THEN {<<>>}
    ELSE UNION {{<<Join(f)>> \o js : f \in TableFactors(a), js \in JoinLists(n - a)} : a \in 1 .. n}

TableWithJoinsOf(n) ==
    UNION {{TableWithJoins(f, js) : f \in TableFactors(a), js \in JoinLists(n - a)} : a \in 1 .. n}

FromLists(n) ==
    IF n = 0 THEN {<<>>}
    ELSE UNION {{<<t>> \o ts : t \in TableWithJoinsOf(a), ts \in FromLists(n - a)} : a \in 1 .. n}

SetExprs(n) ==
    IF n < 1 THEN {}
    ELSE UNION {{SetExprSelect(Select(h, s, f)) : h \in OptExprs(a[1]), s \in OptExprs(a[2]),
                                                  f \in FromLists(n - 1 - a[1] - a[2])} :
                 a \in {b \in (0 .. n - 1) \X (0 .. n - 1) : b[1] + b[2] <= n - 1}}
        \cup {SetExprQuery(Query(b)) : b \in SetExprs(n - 1)}
        \cup UNION {{SetExprSetOperation(l, "UNION", r) : l \in SetExprs(a), r \in SetExprs(n - 1 - a)} :
                     a \in 1 .. n - 2}
        \cup {SetExprValues(<<e>>) : e \in Exprs(n - 1)}

Statements(n) ==
    {StatementQuery(Query(b)) : b \in SetExprs(n)}
        \cup {StatementInsert(Query(b)) : b \in SetExprs(n)}

SizedStatements == UNION {Statements(n) : n \in 1 .. MaxNodes}

\* ------------------------------------------- the inputs of tests::test_binder_named
Testdata == <<TableWithJoins(TableFactorTable("testdata"), <<>>)>>
FieldEq(name, m) == ExprBinaryOp(ExprIdentifier(name), "=", ExprValue(Placeholder(m)))
SelectWhere(e) == SetExprSelect(Select(<<>>, <<e>>, Testdata))

TestAnd == StatementQuery(Query(SelectWhere(
    ExprBinaryOp(FieldEq("fieldA", "$1"), "AND", FieldEq("fieldB", "$2")))))
TestOr == StatementQuery(Query(SelectWhere(
    ExprBinaryOp(FieldEq("fieldA", "$1"), "OR", FieldEq("fieldB", "$2")))))
TestBetween == StatementQuery(Query(SelectWhere(
    ExprBetween(ExprIdentifier("fieldA"), FALSE,
                ExprValue(Placeholder("$1")), ExprValue(Placeholder("$2"))))))
TestUnionAll == StatementQuery(Query(SetExprSetOperation(
    SelectWhere(FieldEq("fieldA", "$1")), "UNION ALL", SelectWhere(FieldEq("fieldA", "$2")))))
TestDerived == StatementQuery(Query(SetExprSelect(Select(<<>>, <<>>,
    <<TableWithJoins(TableFactorDerived(Query(SelectWhere(FieldEq("fieldA", "$1")))), <<>>)>>))))

TestInputs ==
    {[stmt |-> TestAnd, values |-> <<String("test"), Int64(1)>>],
     [stmt |-> TestOr, values |-> <<String("test1"), String("test2")>>],
     [stmt |-> TestBetween, values |-> <<String("test1"), String("test2")>>],
     [stmt |-> TestUnionAll, values |-> <<String("test1"), String("test2")>>],
     [stmt |-> TestDerived, values |-> <<String("test1")>>]}

\* Larger statements: joins over derived tables, nested set operations, markers
\* whose ordinals are not in order of appearance.
DerivedWhere(m) == TableFactorDerived(Query(SelectWhere(ExprValue(Placeholder(m)))))
JoinedDerived == StatementQuery(Query(SetExprSelect(Select(<<>>, <<ExprValue(Placeholder("$1"))>>,
    <<TableWithJoins(DerivedWhere("$2"), <<Join(DerivedWhere("$3")), Join(DerivedWhere("$4"))>>),
      TableWithJoins(TableFactorTable("testdata"), <<Join(DerivedWhere("$5"))>>)>>))))
NestedUnion == StatementQuery(Query(SetExprSetOperation(
    SetExprSetOperation(SelectWhere(ExprValue(Placeholder("$1"))), "UNION",
                        SetExprQuery(Query(SelectWhere(ExprValue(Placeholder("$2")))))),
    "EXCEPT",
    SetExprSetOperation(SelectWhere(ExprValue(Placeholder("$3"))), "INTERSECT",
                        SelectWhere(ExprValue(Placeholder("$4")))))))
OutOfOrder == StatementQuery(Query(SelectWhere(
    ExprBinaryOp(FieldEq("fieldA", "$2"), "AND",
                 ExprNested(ExprBinaryOp(FieldEq("fieldB", "$1"), "OR", FieldEq("fieldC", "$1")))))))
DeepValues == <<Int64(-10), String("test"), UInt64(12), Bool(FALSE), Int64(7)>>
DeepInputs ==
    {[stmt |-> s, values |-> SubSeq(DeepValues, 1, n)] :
        s \in {JoinedDerived, NestedUnion, OutOfOrder}, n \in 2 .. 5}

Inputs ==
    {[stmt |-> s, values |-> v] : s \in SizedStatements, v \in ValueLists}
        \cup TestInputs \cup DeepInputs

\* ------------------------------------------------------------ tree access
RECURSIVE NodeAt(_, _)
NodeAt(t, path) == IF path = <<>> THEN t ELSE NodeAt(t.kids[Head(path)], Tail(path))

RECURSIVE ReplaceAt(_, _, _)
ReplaceAt(t, path, n) ==
    IF path = <<>> THEN n
    ELSE [t EXCEPT !.kids[Head(path)] = ReplaceAt(t.kids[Head(path)], Tail(path), n)]

RECURSIVE Paths(_)
Paths(t) ==
    {<<>>} \cup UNION {{<<i>> \o p : p \in Paths(t.kids[i])} : i \in DOMAIN t.kids}

\* ------------------------------------------------------ literal conversion
Digits == <<"0", "1", "2", "3", "4", "5", "6", "7", "8", "9">>

RECURSIVE UnsignedToString(_)
UnsignedToString(n) ==
    IF n < 10 THEN Digits[n + 1] ELSE UnsignedToString(n \div 10) \o Digits[(n % 10) + 1]

ToString(v) == IF v < 0 THEN "-" \o UnsignedToString(-v) ELSE UnsignedToString(v)

\* Literal with the Int64 flag set for zero as well.
LiteralFlagsZero(to_replace) ==
    CASE to_replace[1] = "String" -> SingleQuotedString(to_replace[2])
      [] to_replace[1] = "Bool" -> Boolean(to_replace[2])
      [] to_replace[1] = "UInt64" -> Number(ToString(to_replace[2]), FALSE)
      [] to_replace[1] = "Int64" -> Number(ToString(to_replace[2]), to_replace[2] <= 0)

Literal(to_replace) ==
    CASE to_replace[1] = "String" -> SingleQuotedString(to_replace[2])
      [] to_replace[1] = "Bool" -> Boolean(to_replace[2])
      [] to_replace[1] = "UInt64" -> Number(ToString(to_replace[2]), FALSE)
      [] to_replace[1] = "Int64" -> Number(ToString(to_replace[2]), to_replace[2] < 0)

\* ------------------------------------------------------------------ state
VARIABLES
    stmt,       \* the statement tree handed to bind, mutated in place
    values,     \* StatementBinder.values
    position,   \* StatementBinder.position
    stack,      \* pending visitor calls, the next one first
    status,     \* "new", "binding", "returned" or "panicked"
    parsed,     \* the statement as the parser produced it (history)
    bound       \* paths of the placeholders replaced so far, in order (history)

vars == <<stmt, values, position, stack, status, parsed, bound>>

Call(fn, path) == [fn |-> fn, path |-> path]
Calls(fn, path, indices) == [k \in 1 .. Len(indices) |-> Call(fn, Append(path, indices[k]))]
Range(from, to) == [k \in 1 .. (to - from + 1) |-> from + k - 1]

Top == Head(stack)
Visiting(fn) == status = "binding" /\ stack # <<>> /\ Top.fn = fn
Current == NodeAt(stmt, Top.path)

\* StatementBinder::new on the caller's value list; the tree is the caller's.
Init ==
    \E in \in Inputs :
        /\ stmt = in.stmt
        /\ parsed = in.stmt
        /\ values = in.values
        /\ position = 0
        /\ stack = <<>>
        /\ status = "new"
        /\ bound = <<>>

Bind ==
    /\ status = "new"
    /\ status' = "binding"
    /\ stack' = <<Call("visit_statement", <<>>)>>
    /\ UNCHANGED <<stmt, values, position, parsed, bound>>

\* A visitor method that only dispatches: it is replaced by the calls it makes.
Dispatch(calls) ==
    /\ stack' = calls \o Tail(stack)
    /\ UNCHANGED <<stmt, values, position, status, parsed, bound>>

\* visit_statement going into every statement kind.
StatementCallsAnyKind(node, path) == <<Call("visit_query", Append(path, 1))>>

StatementCalls(node, path) ==
    IF node.kind = "Statement::Query" THEN <<Call("visit_query", Append(path, 1))>> ELSE <<>>

VisitStatement == Visiting("visit_statement") /\ Dispatch(StatementCalls(Current, Top.path))

QueryCalls(node, path) == <<Call("visit_set_expr", Append(path, 1))>>

VisitQuery == Visiting("visit_query") /\ Dispatch(QueryCalls(Current, Top.path))

\* visit_set_expr taking the right branch of a SetOperation first.
SetExprCallsRightFirst(node, path) ==
    CASE node.kind = "SetExpr::Select" -> <<Call("visit_select", Append(path, 1))>>
      [] node.kind = "SetExpr::Query" -> <<Call("visit_query", Append(path, 1))>>
      [] node.kind = "SetExpr::SetOperation" ->
            <<Call("visit_set_expr", Append(path, 2)), Call("visit_set_expr", Append(path, 1))>>
      [] OTHER -> <<>>

SetExprCalls(node, path) ==
    CASE node.kind = "SetExpr::Select" -> <<Call("visit_select", Append(path, 1))>>
      [] node.kind = "SetExpr::Query" -> <<Call("visit_query", Append(path, 1))>>
      [] node.kind = "SetExpr::SetOperation" ->
            <<Call("visit_set_expr", Append(path, 1)), Call("visit_set_expr", Append(path, 2))>>
      [] OTHER -> <<>>

VisitSetExpr == Visiting("visit_set_expr") /\ Dispatch(SetExprCalls(Current, Top.path))

\* Layout of a Select's kids: having (if any), selection (if any), then from.
HasHaving(select) == select.data[1]
HasSelection(select) == select.data[2]
SelectionIndex(select) == IF HasHaving(select) THEN 2 ELSE 1
FromIndices(select) ==
    Range((IF HasHaving(select) THEN 1 ELSE 0) + (IF HasSelection(select) THEN 1 ELSE 0) + 1,
          Len(select.kids))

\* visit_select walking FROM before WHERE.
SelectCallsFromFirst(node, path) ==
    Calls("visit_table_with_joins", path, FromIndices(node))
        \o (IF HasSelection(node) THEN <<Call("visit_expr", Append(path, SelectionIndex(node)))>>
            ELSE <<>>)

SelectCalls(node, path) ==
    (IF HasSelection(node) THEN <<Call("visit_expr", Append(path, SelectionIndex(node)))>> ELSE <<>>)
        \o Calls("visit_table_with_joins", path, FromIndices(node))

VisitSelect == Visiting("visit_select") /\ Dispatch(SelectCalls(Current, Top.path))

TableWithJoinsCalls(node, path) ==
    <<Call("visit_table_factor", Append(path, 1))>>
        \o Calls("visit_join", path, Range(2, Len(node.kids)))

VisitTableWithJoins ==
    Visiting("visit_table_with_joins") /\ Dispatch(TableWithJoinsCalls(Current, Top.path))

JoinCalls(node, path) == <<Call("visit_table_factor", Append(path, 1))>>

VisitJoin == Visiting("visit_join") /\ Dispatch(JoinCalls(Current, Top.path))

TableFactorCalls(node, path) ==
    IF node.kind = "TableFactor::Derived" THEN <<Call("visit_query", Append(path, 1))>> ELSE <<>>

VisitTableFactor == Visiting("visit_table_factor") /\ Dispatch(TableFactorCalls(Current, Top.path))

\* visit_expr taking the high bound of a Between before the low bound.
ExprCallsHighFirst(node, path) ==
    CASE node.kind = "Expr::Value" -> <<Call("visit_value", path)>>
      [] node.kind = "Expr::Identifier" -> <<Call("visit_identifier", path)>>
      [] node.kind = "Expr::Nested" -> <<Call("visit_expr", Append(path, 1))>>
      [] node.kind = "Expr::Between" ->
            <<Call("visit_expr", Append(path, 1)), Call("visit_expr", Append(path, 3)),
              Call("visit_expr", Append(path, 2))>>
      [] node.kind = "Expr::BinaryOp" ->
            <<Call("visit_expr", Append(path, 1)), Call("visit_expr", Append(path, 2))>>
      [] OTHER -> <<>>

\* An Expr::Value and an Expr::Identifier hold their Value and Ident in data,
\* so visit_value and visit_identifier are called on the same path.
ExprCalls(node, path) ==
    CASE node.kind = "Expr::Value" -> <<Call("visit_value", path)>>
      [] node.kind = "Expr::Identifier" -> <<Call("visit_identifier", path)>>
      [] node.kind = "Expr::Nested" -> <<Call("visit_expr", Append(path, 1))>>
      [] node.kind = "Expr::Between" ->
            <<Call("visit_expr", Append(path, 1)), Call("visit_expr", Append(path, 2)),
              Call("visit_expr", Append(path, 3))>>
      [] node.kind = "Expr::BinaryOp" ->
            <<Call("visit_expr", Append(path, 1)), Call("visit_expr", Append(path, 2))>>
      [] OTHER -> <<>>

VisitExpr == Visiting("visit_expr") /\ Dispatch(ExprCalls(Current, Top.path))

VisitIdentifier == Visiting("visit_identifier") /\ Dispatch(<<>>)

\* visit_value matching every Value.
IsPlaceholderAnyValue(node) == node.kind = "Expr::Value"

IsPlaceholder(node) == node.kind = "Expr::Value" /\ node.data[1] = "Placeholder"

\* visit_value looking the value up by the ordinal written in the marker.
ValueIndexByOrdinal(node) ==
    CASE node.data[2] = "$1" -> 1
      [] node.data[2] = "$2" -> 2
      [] node.data[2] = "$3" -> 3
      [] node.data[2] = "$4" -> 4
      [] OTHER -> 5

\* values.get(position).expect("unexpected"): None panics.  Rust indexes
\* from 0, a TLA+ sequence from 1.
ValueIndex(node) == position + 1

\* visit_value forgetting to move the cursor.
AdvanceForgotten(pos) == pos

Advance(pos) == pos + 1

VisitValue ==
    /\ Visiting("visit_value")
    /\ IF IsPlaceholder(Current)
       THEN IF ValueIndex(Current) \in DOMAIN values
            THEN /\ position' = Advance(position)
                 /\ stmt' = ReplaceAt(stmt, Top.path,
                                      [Current EXCEPT !.data = Literal(values[ValueIndex(Current)])])
                 /\ bound' = Append(bound, Top.path)
                 /\ stack' = Tail(stack)
                 /\ UNCHANGED <<values, status, parsed>>
            ELSE /\ status' = "panicked"
                 /\ UNCHANGED <<stmt, values, position, stack, parsed, bound>>
       ELSE /\ stack' = Tail(stack)
            /\ UNCHANGED <<stmt, values, position, status, parsed, bound>>

\* visit_statement has returned: bind returns ().
Return ==
    /\ status = "binding"
    /\ stack = <<>>
    /\ status' = "returned"
    /\ UNCHANGED <<stmt, values, position, stack, parsed, bound>>

Next ==
    \/ Bind
    \/ VisitStatement
    \/ VisitQuery
    \/ VisitSetExpr
    \/ VisitSelect
    \/ VisitTableWithJoins
    \/ VisitJoin
    \/ VisitTableFactor
    \/ VisitExpr
    \/ VisitIdentifier
    \/ VisitValue
    \/ Return

Spec == Init /\ [][Next]_vars

\* ------------------------------------------------ what the traversal reaches
IsMarker(node) == node.kind = "Expr::Value" /\ node.data[1] = "Placeholder"

\* The visitor method called on node goes on into its i-th kid.
Recursed(node, i) ==
    CASE node.kind = "Select" -> ~(HasHaving(node) /\ i = 1)
      [] node.kind \in {"Statement::Query", "Query", "SetExpr::Select", "SetExpr::Query",
                        "SetExpr::SetOperation", "TableWithJoins", "Join", "TableFactor::Derived",
                        "Expr::Nested", "Expr::Between", "Expr::BinaryOp"} -> TRUE
      [] OTHER -> FALSE

Prefix(path, n) == SubSeq(path, 1, n)

RECURSIVE PlaceholderPaths(_)
PlaceholderPaths(t) ==
    IF IsMarker(t) THEN {<<>>}
    ELSE UNION {{<<i>> \o p : p \in PlaceholderPaths(t.kids[i])} : i \in DOMAIN t.kids}

\* The placeholders the traversal started on t comes to.
RECURSIVE Discoverable(_)
Discoverable(t) ==
    IF IsMarker(t) THEN {<<>>}
    ELSE UNION {{<<i>> \o p : p \in Discoverable(t.kids[i])} :
                 i \in {k \in DOMAIN t.kids : Recursed(t, k)}}

\* Kids are visited in index order, so traversal order is the order of paths.
Precedes(p, q) ==
    \E i \in 1 .. Len(p) : i <= Len(q) /\ Prefix(p, i - 1) = Prefix(q, i - 1) /\ p[i] < q[i]
Rank(paths, p) == Cardinality({q \in paths : Precedes(q, p)}) + 1

LiteralFormOf(data, v) ==
    CASE v[1] = "String" -> data[1] = "SingleQuotedString" /\ data[2] = v[2]
      [] v[1] = "Int64" -> data[1] = "Number" /\ data[3] = (v[2] < 0)
      [] v[1] = "UInt64" -> data[1] = "Number" /\ data[3] = FALSE
      [] v[1] = "Bool" -> data[1] = "Boolean" /\ data[2] = v[2]

\* new has the shape and kinds of old, and the content of old wherever old is
\* not a placeholder.
RECURSIVE Preserved(_, _)
Preserved(old, new) ==
    /\ new.kind = old.kind
    /\ Len(new.kids) = Len(old.kids)
    /\ ~IsMarker(old) => new.data = old.data
    /\ \A i \in DOMAIN old.kids : Preserved(old.kids[i], new.kids[i])

\* Where the paths of two bound placeholders part under a node of one of the
\* kinds, the one that goes into the earlier kid was bound first.
EarlierKidFirst(kinds) ==
    \A i, j \in DOMAIN bound :
        \A n \in 0 .. Len(bound[i]) - 1 :
            /\ n < Len(bound[j])
            /\ Prefix(bound[i], n) = Prefix(bound[j], n)
            /\ NodeAt(parsed, Prefix(bound[i], n)).kind \in kinds
            /\ bound[i][n + 1] < bound[j][n + 1]
            => i < j

OnPlaceholder == Visiting("visit_value") /\ IsMarker(Current)

\* ------------------------------------------------------------------ claims
\* C1: when the value list has as many values as the statement has
\* discoverable placeholders, bind does not fail, and once it has returned
\* the k-th discoverable placeholder in traversal order holds the literal
\* form of the k-th value and no discoverable placeholder is left.
C1_BindReplacesInOrder ==
    LET discoverable == Discoverable(parsed)
    IN Cardinality(discoverable) = Len(values) =>
        /\ status # "panicked"
        /\ status = "returned" =>
            /\ \A p \in discoverable :
                   LiteralFormOf(NodeAt(stmt, p).data, values[Rank(discoverable, p)])
            /\ Discoverable(stmt) = {}

C1_Witness ==
    /\ status = "returned"
    /\ parsed = TestAnd
    /\ values = <<String("test"), Int64(1)>>
    /\ Cardinality(Discoverable(parsed)) = 2

\* C2: a placeholder visited when no value is left makes bind end with an
\* InsufficientParameters error: no crash, no success.
C2_InsufficientParametersReported ==
    [][OnPlaceholder /\ position >= Len(values) => status' = "InsufficientParameters"]_vars

\* C3: bind returns successfully only with position at the end of the value list.
C3_ReturnedConsumedAll == status = "returned" => position = Len(values)

\* C4: the tree keeps its shape, and every node that was not a placeholder
\* keeps its kind, content and number of children.
C4_OnlyPlaceholdersChange == Preserved(parsed, stmt)

C4_Witness ==
    /\ status = "returned"
    /\ bound # <<>>
    /\ \E p \in Paths(parsed) : NodeAt(parsed, p).kind = "Expr::Value" /\ ~IsMarker(NodeAt(parsed, p))

\* C5: under every SetOperation the placeholders of the left branch are bound
\* before those of the right branch, and so take the lower value indices.
C5_LeftBranchFirst == EarlierKidFirst({"SetExpr::SetOperation"})

C5_Witness == status = "returned" /\ parsed = NestedUnion /\ Len(bound) = 4

\* C6: in a Select the placeholders of WHERE are bound before those reached
\* through FROM, the FROM entries go in listed order, and in each entry the
\* relation goes before the joins and the joins in listed order.  (A Select
\* lists its selection before its from entries, a TableWithJoins its relation
\* before its joins.)
C6_WhereThenFromInOrder == EarlierKidFirst({"Select", "TableWithJoins"})

C6_Witness == status = "returned" /\ parsed = JoinedDerived /\ Len(bound) = 5

\* C7: in a Between the placeholders of expr are bound before those of low,
\* and those of low before those of high; in a BinaryOp those of the left
\* operand before those of the right, whatever the operator.
C7_ExprLeftToRight == EarlierKidFirst({"Expr::Between", "Expr::BinaryOp"})

C7_Witness ==
    /\ status = "returned"
    /\ parsed = TestBetween
    /\ Len(bound) = 2
    /\ bound[1][Len(bound[1])] = 2
    /\ bound[2][Len(bound[2])] = 3
    /\ NodeAt(stmt, bound[1]).data = SingleQuotedString("test1")
    /\ NodeAt(stmt, bound[2]).data = SingleQuotedString("test2")

\* C8: position stays within 0 .. len(values), starts at 0, and a step either
\* is the visit of a placeholder with a value left, which adds exactly 1, or
\* leaves position as it is.
C8_PositionInRange == position \in 0 .. Len(values) /\ (status = "new" => position = 0)

C8_PositionSteps ==
    [][IF OnPlaceholder /\ position < Len(values)
       THEN position' = position + 1
       ELSE position' = position]_vars

C8_Position == []C8_PositionInRange /\ C8_PositionSteps

C8_Witness == status = "panicked" /\ position = Len(values) /\ position > 0

\* C9: a placeholder the traversal does not reach is still a placeholder, has
\* consumed no value, and is not what makes bind fail.
C9_UnreachedUntouched ==
    LET discoverable == Discoverable(parsed)
    IN /\ \A p \in PlaceholderPaths(parsed) \ discoverable :
            /\ NodeAt(stmt, p) = NodeAt(parsed, p)
            /\ \A k \in DOMAIN bound : bound[k] # p
       /\ Len(bound) = position
       /\ Len(bound) <= Cardinality(discoverable)
       /\ status = "panicked" => Top.path \in discoverable

C9_Witness ==
    /\ status = "returned"
    /\ bound # <<>>
    /\ PlaceholderPaths(stmt) # {}
    /\ position = Len(values)

\* C10: the k-th placeholder bound holds the literal form of the k-th value,
\* whatever ordinal its marker carried, and no placeholder is bound twice.
C10_RankNotOrdinal ==
    /\ \A k \in DOMAIN bound : LiteralFormOf(NodeAt(stmt, bound[k]).data, values[k])
    /\ \A j, k \in DOMAIN bound : bound[j] = bound[k] => j = k

C10_Witness ==
    /\ status = "returned"
    /\ parsed = OutOfOrder
    /\ Len(bound) = 3
    /\ NodeAt(parsed, bound[1]).data = Placeholder("$2")
    /\ NodeAt(parsed, bound[2]).data = Placeholder("$1")
    /\ NodeAt(parsed, bound[3]).data = Placeholder("$1")
====
